---- MODULE Spec2Model ----
(***************************************************************************)
(* UMI bridge server ("Python files/Bridge.py"): the per-device session    *)
(* of class DeviceSession, the connection handler of class UMIBridge, the  *)
(* room connections a session opens, and the playback-forwarding tasks a   *)
(* room's track_subscribed callback spawns.                                *)
(*                                                                         *)
(* asyncio runs one coroutine at a time and switches only at an await, so  *)
(* every action below is the code between two awaits of one coroutine.     *)
(***************************************************************************)
EXTENDS Integers, Sequences, FiniteSets, TLC

\* ---------------------------------------------------------------- bounds
NumConns == 2       \* device connections the server accepts
MaxMsgs == 5        \* messages received, when one handler runs alone
MaxMsgsConc == 2    \* messages received, when handlers or tasks interleave
MaxTasks == 2       \* playback-forwarding tasks created in all
MaxPlay == 2        \* remote frames forwarded to devices in all
MaxTasksConc == 1   \* tasks created, when sessions start and end meanwhile
MaxPlayConc == 1    \* frames forwarded, when sessions start and end
                    \* meanwhile or the frames' contents vary
MaxSamples == 4     \* samples in one remote frame

Conns == 1..NumConns
SessionIds == {1}   \* the session_id values a device sends

\* ----------------------------------------------------- program constants
SAMPLE_RATE == 16000
CHANNELS == 1

None == 0           \* Python's None for session_id, room and audio_source

VARIABLES
    devices,            \* UMIBridge.devices: the registered device ids
    pc,                 \* where each connection's handle_device coroutine is
    ret,                \* who awaits end_session: "msg", "cleanup" or "none"
    closed,             \* the peer closed the socket (or it broke)
    session_id,         \* DeviceSession.session_id
    room,               \* DeviceSession.room: index into rooms[c], or None
    audio_source,       \* DeviceSession.audio_source: index of its room, or None
    is_active,          \* DeviceSession.is_active
    audio_frames_sent,  \* DeviceSession.audio_frames_sent
    rooms,              \* every rtc.Room a connection created, in order
    tasks,              \* every _forward_agent_audio task of a connection
    out,                \* the control messages the receive loop's coroutine
                        \* handed to websocket.send, in order
    play,               \* what the playback tasks handed to websocket.send,
                        \* in order
    cleanups,           \* times handle_device's finally block was entered
    signing_ok,         \* the configured API secret can sign a grant
    last,               \* the message each receive loop took last, by kind
    nrecv,              \* messages received so far (all connections)
    nplay               \* remote frames forwarded so far (all connections)

vars == <<devices, pc, ret, closed, session_id, room, audio_source, is_active,
          audio_frames_sent, rooms, tasks, out, play, cleanups, signing_ok,
          last, nrecv, nplay>>

sessvars == <<session_id, room, audio_source, is_active, audio_frames_sent>>

\* ------------------------------------------------------------- messages
\* One bridge->device message.  room is the room connection the message
\* belongs to (None for ready), task the playback task that wrote it (0 for
\* the receive loop), ok whether the socket was still open.
Msg(type, sid, frames, r, t, ok) ==
    [type |-> type, sid |-> sid, frames |-> frames, room |-> r,
     task |-> t, ok |-> ok]

\* DeviceSession.send_message: websocket.send(json.dumps(msg)); an exception
\* (socket closed) is logged and swallowed.
send_message(c, type, sid, frames, r, t) ==
    Append(IF t = 0 THEN out[c] ELSE play[c],
           Msg(type, sid, frames, r, t, ~closed[c]))

\* rtc.Room() as start_session creates it, before connect.
NewRoom(sid) ==
    [st |-> "connecting", handler |-> FALSE, disc |-> 0, cap |-> 0, sid |-> sid,
     log |-> <<>>, subs |-> 0, other |-> 0]

\* ----------------------------------------------------------------- Init
Init ==
    /\ devices = {}
    /\ pc = [c \in Conns |-> "new"]
    /\ ret = [c \in Conns |-> "none"]
    /\ closed = [c \in Conns |-> FALSE]
    /\ session_id = [c \in Conns |-> None]
    /\ room = [c \in Conns |-> None]
    /\ audio_source = [c \in Conns |-> None]
    /\ is_active = [c \in Conns |-> FALSE]
    /\ audio_frames_sent = [c \in Conns |-> 0]
    /\ rooms = [c \in Conns |-> <<>>]
    /\ tasks = [c \in Conns |-> <<>>]
    /\ out = [c \in Conns |-> <<>>]
    /\ play = [c \in Conns |-> <<>>]
    /\ cleanups = [c \in Conns |-> 0]
    /\ signing_ok \in BOOLEAN
    /\ last = [c \in Conns |-> "none"]
    /\ nrecv = 0
    /\ nplay = 0

\* ------------------------------------------------- UMIBridge.handle_device
\* Lines 207-211: a device connected; its DeviceSession is created (__init__)
\* and registered, and the receive loop starts.
Accept(c) ==
    /\ pc[c] = "new"
    /\ \A d \in 1..(c - 1) : pc[d] # "new"   \* connections are numbered as accepted
    /\ devices' = devices \cup {c}
    /\ pc' = [pc EXCEPT ![c] = "recv"]
    /\ session_id' = [session_id EXCEPT ![c] = None]
    /\ room' = [room EXCEPT ![c] = None]
    /\ audio_source' = [audio_source EXCEPT ![c] = None]
    /\ is_active' = [is_active EXCEPT ![c] = FALSE]
    /\ audio_frames_sent' = [audio_frames_sent EXCEPT ![c] = 0]
    /\ UNCHANGED <<ret, closed, rooms, tasks, play, out, cleanups, signing_ok, last, nrecv,
                   nplay>>

\* The device closes the socket, or the socket breaks.
PeerClose(c) ==
    /\ pc[c] # "new"
    /\ pc[c] # "done"
    /\ ~closed[c]
    /\ closed' = [closed EXCEPT ![c] = TRUE]
    /\ UNCHANGED <<devices, pc, ret, session_id, room, audio_source, is_active,
                   audio_frames_sent, rooms, tasks, play, out, cleanups, signing_ok,
                   last, nrecv, nplay>>

\* Line 215: "async for message in websocket" yields one more message.
Receives(c, kind) ==
    /\ pc[c] = "recv"
    /\ ~closed[c]
    /\ nrecv < MaxMsgs
    /\ nrecv' = nrecv + 1
    /\ last' = [last EXCEPT ![c] = kind]

\* --------------------------------------- DeviceSession.end_session, part 1
\* end_session without its guard.
end_session_never_returns_early(c) == FALSE

\* Line 104: the guard that makes end_session a no-op.
end_session_returns_early(c) == ~is_active[c]

\* Lines 107-113, up to the await of room.disconnect(): rms is the value of
\* rooms when end_session is called, who is its caller.  Sets is_active,
\* rooms, pc, ret, audio_source and out.
end_session_begin(c, rms, who) ==
    /\ is_active' = [is_active EXCEPT ![c] = FALSE]
    /\ ret' = [ret EXCEPT ![c] = who]
    /\ IF room[c] # None
       THEN /\ rooms' = [rms EXCEPT ![c][room[c]].disc = @ + 1]
            /\ pc' = [pc EXCEPT ![c] = "disconnect"]
            /\ UNCHANGED <<audio_source, out>>
       ELSE /\ rooms' = rms
            /\ audio_source' = [audio_source EXCEPT ![c] = None]
            /\ out' = [out EXCEPT ![c] =
                   send_message(c, "session_ended", session_id[c],
                                audio_frames_sent[c], None, 0)]
            /\ pc' = [pc EXCEPT ![c] = "notify_ended"]

\* ------------------------------- UMIBridge.handle_device, the finally block
\* Lines 226-234, entered once the receive loop is over: end_session if the
\* session is active, then the registry entry is deleted.  rms is the value
\* of rooms when the loop ended.  Sets every variable but closed, session_id,
\* room, audio_frames_sent, tasks, signing_ok, nrecv and nplay.
cleanup_never_ends_session(c) == FALSE

\* Line 228: the finally block ends the session only if it is active.
needs_end_session(c) == is_active[c]

\* The registry entry is left in place.
unregister_forgotten(c) == devices

\* Lines 231-232: the registry without the connection's entry.
unregister(c) == devices \ {c}

finally_block(c, rms) ==
    /\ cleanups' = [cleanups EXCEPT ![c] = @ + 1]
    /\ IF needs_end_session(c) /\ ~end_session_returns_early(c)
       THEN /\ end_session_begin(c, rms, "cleanup")
            /\ UNCHANGED devices
       ELSE /\ devices' = unregister(c)
            /\ pc' = [pc EXCEPT ![c] = "done"]
            /\ rooms' = rms
            /\ UNCHANGED <<ret, is_active, audio_source, out>>

\* Lines 215-224: the socket is closed, so the loop ends (normally or with
\* ConnectionClosed), and the finally block runs.
LoopExit(c) ==
    /\ pc[c] = "recv"
    /\ closed[c]
    /\ finally_block(c, rooms)
    /\ UNCHANGED <<closed, session_id, room, audio_frames_sent, tasks, play,
                   signing_ok, last, nrecv, nplay>>

\* ---------------------------------- DeviceSession.process_audio_chunk
\* process_audio_chunk without its guard.
ingest_always_accepted(c) == TRUE

\* Line 129: a frame is processed only if this holds.
ingest_accepted(c) == is_active[c] /\ audio_source[c] # None

\* Every buffer counts as decoded.
decodes_anything(nbytes) == TRUE

\* Line 134: np.frombuffer(audio_data, dtype=np.int16) raises ValueError when
\* the buffer is not a whole number of 2-byte samples.
decodes(nbytes) == nbytes % 2 = 0

\* The counter counts attempts.
counted_attempts(n, nbytes, captured) == n + 1

\* Line 144, reached only when neither frombuffer nor capture_frame raised.
counted(n, nbytes, captured) == IF decodes(nbytes) /\ captured THEN n + 1 ELSE n

FrameSizes == {2, 3}   \* byte lengths of the binary frames a device sends

\* The room receives the frames in reverse.
capture_frame_first(log, n) == <<n>> \o log

\* Line 142: audio_source.capture_frame(frame) hands frame number n to the
\* room, after the frames it was handed before.
capture_frame(log, n) == Append(log, n)

\* Lines 240-241 and 127-152: a binary message.  captured says whether
\* audio_source.capture_frame succeeds; every exception is caught at 151.
RecvBinary(c, nbytes, captured) ==
    /\ Receives(c, "binary")
    /\ IF ingest_accepted(c)
       THEN /\ audio_frames_sent' = [audio_frames_sent EXCEPT ![c] =
                   counted(@, nbytes, captured)]
            /\ rooms' = IF decodes(nbytes) /\ captured
                        THEN [rooms EXCEPT ![c][audio_source[c]].cap = @ + 1,
                                           ![c][audio_source[c]].log =
                                               capture_frame(@, nrecv + 1)]
                        ELSE rooms
       ELSE UNCHANGED <<audio_frames_sent, rooms>>
    /\ UNCHANGED <<devices, pc, ret, closed, session_id, room, audio_source,
                   is_active, tasks, play, out, cleanups, signing_ok, nplay>>

\* ------------------------------------------- UMIBridge._handle_message
\* Lines 249-254: device_info is answered with ready.
RecvDeviceInfo(c) ==
    /\ Receives(c, "device_info")
    /\ out' = [out EXCEPT ![c] = send_message(c, "ready", None, 0, None, 0)]
    /\ UNCHANGED <<devices, pc, ret, closed, session_id, room, audio_source,
                   is_active, audio_frames_sent, rooms, tasks, play, cleanups,
                   signing_ok, nplay>>

\* Lines 245-247 and 270-271: text that json.loads rejects (logged), and a
\* record whose type is missing or unknown (no branch matches).
RecvIgnored(c, kind) ==
    /\ Receives(c, kind)
    /\ kind \in {"invalid_json", "no_type", "unknown_type"}
    /\ UNCHANGED <<devices, pc, ret, closed, session_id, room, audio_source,
                   is_active, audio_frames_sent, rooms, tasks, play, out, cleanups,
                   signing_ok, nplay>>

\* Line 247: json.loads returned a list, number or string, so msg.get raises
\* AttributeError; only JSONDecodeError is caught at 270, so the exception
\* leaves the receive loop (221-224) and the finally block runs.
RecvNonRecord(c) ==
    /\ Receives(c, "non_record")
    /\ finally_block(c, rooms)
    /\ UNCHANGED <<closed, session_id, room, audio_frames_sent, tasks, play,
                   signing_ok, nplay>>

\* The new session goes on counting where the last one stopped.
frames_sent_kept(c) == audio_frames_sent[c]

\* Line 61: the frame counter a session starts with.
initial_frames_sent(c) == 0

\* Lines 256-265 and start_session 59-70, up to the await of room.connect:
\* sid is msg.get('session_id'), None when the field is missing.  When
\* _create_token raises, the exception leaves the receive loop.
RecvStartSession(c, sid) ==
    /\ Receives(c, "start_session")
    /\ IF signing_ok
       THEN /\ session_id' = [session_id EXCEPT ![c] = sid]
            /\ is_active' = [is_active EXCEPT ![c] = TRUE]
            /\ audio_frames_sent' = [audio_frames_sent EXCEPT ![c] =
                   initial_frames_sent(c)]
            /\ rooms' = [rooms EXCEPT ![c] = Append(@, NewRoom(sid))]
            /\ room' = [room EXCEPT ![c] = Len(rooms[c]) + 1]
            /\ pc' = [pc EXCEPT ![c] = "connect"]
            /\ UNCHANGED <<devices, ret, audio_source, out, cleanups>>
       ELSE /\ finally_block(c, rooms)
            /\ UNCHANGED <<session_id, audio_frames_sent, room>>
    /\ UNCHANGED <<closed, tasks, play, signing_ok, nplay>>

\* ------------------------------------ DeviceSession.start_session, the rest
\* Lines 70-77: room.connect returns, and the audio source is created; or it
\* raises (72-74), which leaves the receive loop.
ConnectDone(c, ok) ==
    /\ pc[c] = "connect"
    /\ IF ok
       THEN /\ rooms' = [rooms EXCEPT ![c][room[c]].st = "connected"]
            /\ audio_source' = [audio_source EXCEPT ![c] = room[c]]
            /\ pc' = [pc EXCEPT ![c] = "publish"]
            /\ UNCHANGED <<devices, ret, is_active, out, cleanups>>
       ELSE finally_block(c, [rooms EXCEPT ![c][room[c]].st = "failed"])
    /\ UNCHANGED <<closed, session_id, room, audio_frames_sent, tasks, play,
                   signing_ok, last, nrecv, nplay>>

\* session_started without the session's identifier.
started_without_id(c) == None

\* Lines 95-98: the session_id that session_started carries.
started_session_id(c) == session_id[c]

\* Lines 83-98: publish_track returns, the track_subscribed handler is
\* registered on the room and session_started is sent; or publish_track
\* raises, which leaves the receive loop.
PublishDone(c, ok) ==
    /\ pc[c] = "publish"
    /\ IF ok
       THEN /\ rooms' = [rooms EXCEPT ![c][room[c]].handler = TRUE]
            /\ out' = [out EXCEPT ![c] =
                   send_message(c, "session_started", started_session_id(c),
                                0, room[c], 0)]
            /\ pc' = [pc EXCEPT ![c] = "notify_started"]
            /\ UNCHANGED <<devices, ret, is_active, audio_source, cleanups>>
       ELSE finally_block(c, rooms)
    /\ UNCHANGED <<closed, session_id, room, audio_frames_sent, tasks, play,
                   signing_ok, last, nrecv, nplay>>

\* Line 100: the send is over and start_session returns to the receive loop.
StartReturn(c) ==
    /\ pc[c] = "notify_started"
    /\ pc' = [pc EXCEPT ![c] = "recv"]
    /\ UNCHANGED <<devices, ret, closed, session_id, room, audio_source,
                   is_active, audio_frames_sent, rooms, tasks, play, out, cleanups,
                   signing_ok, last, nrecv, nplay>>

\* -------------------------------------- DeviceSession.end_session, the rest
\* Lines 267-268 and 104-113: an end_session message.
RecvEndSession(c) ==
    /\ Receives(c, "end_session")
    /\ IF end_session_returns_early(c)
       THEN UNCHANGED <<pc, ret, is_active, audio_source, rooms, out>>
       ELSE end_session_begin(c, rooms, "msg")
    /\ UNCHANGED <<devices, closed, session_id, room, audio_frames_sent, tasks, play,
                   cleanups, signing_ok, nplay>>

\* Lines 113-123: room.disconnect returns (it is safe on a room that never
\* connected), the room and the audio source are dropped and session_ended
\* is sent.
DisconnectDone(c) ==
    /\ pc[c] = "disconnect"
    /\ rooms' = [rooms EXCEPT ![c][room[c]].st =
                     IF @ = "connected" THEN "disconnected" ELSE @]
    /\ room' = [room EXCEPT ![c] = None]
    /\ audio_source' = [audio_source EXCEPT ![c] = None]
    /\ out' = [out EXCEPT ![c] =
           send_message(c, "session_ended", session_id[c],
                        audio_frames_sent[c], room[c], 0)]
    /\ pc' = [pc EXCEPT ![c] = "notify_ended"]
    /\ UNCHANGED <<devices, ret, closed, session_id, is_active,
                   audio_frames_sent, tasks, play, cleanups, signing_ok, last, nrecv,
                   nplay>>

\* Line 125: the send is over, session_id is cleared and end_session
\* returns: to the receive loop, or to the finally block (231-234), which
\* deletes the registry entry.
EndReturn(c) ==
    /\ pc[c] = "notify_ended"
    /\ session_id' = [session_id EXCEPT ![c] = None]
    /\ ret' = [ret EXCEPT ![c] = "none"]
    /\ IF ret[c] = "cleanup"
       THEN /\ devices' = unregister(c)
            /\ pc' = [pc EXCEPT ![c] = "done"]
       ELSE /\ pc' = [pc EXCEPT ![c] = "recv"]
            /\ UNCHANGED devices
    /\ UNCHANGED <<closed, room, audio_source, is_active, audio_frames_sent,
                   rooms, tasks, play, out, cleanups, signing_ok, last, nrecv, nplay>>

\* ------------------------------------------------------- playback tasks
RECURSIVE NumTasks(_)
NumTasks(n) == IF n = 0 THEN 0 ELSE Len(tasks[n]) + NumTasks(n - 1)

\* The tracks the first n rooms of connection c reported as subscribed.
RECURSIVE Reported(_, _)
Reported(c, n) ==
    IF n = 0 THEN 0
    ELSE rooms[c][n].subs + rooms[c][n].other + Reported(c, n - 1)

\* The tracks the rooms of the first n connections reported as subscribed.
RECURSIVE NumTracks(_)
NumTracks(n) ==
    IF n = 0 THEN 0 ELSE Reported(n, Len(rooms[n])) + NumTracks(n - 1)

\* Lines 88-89: room.on("track_subscribed") has run for room r.  It runs
\* after publish_track (83) returned; an event the room emits before that
\* finds no handler.
handler_registered(c, r) == rooms[c][r].handler

\* Lines 88-92: a connected room reports a remote track as subscribed, of
\* kind "audio" or not.  The registered handler creates a forwarding task for
\* an audio track (90-92) and nothing for another track; an event emitted
\* while no handler is registered is dropped.
TrackSubscribed(c, r, kind) ==
    /\ r \in 1..Len(rooms[c])
    /\ rooms[c][r].st = "connected"
    /\ NumTasks(NumConns) < MaxTasks
    /\ NumTracks(NumConns) < MaxTasks
    /\ rooms' = IF kind = "audio"
                THEN [rooms EXCEPT ![c][r].subs = @ + 1]
                ELSE [rooms EXCEPT ![c][r].other = @ + 1]
    /\ tasks' = IF handler_registered(c, r) /\ kind = "audio"
                THEN [tasks EXCEPT ![c] =
                         Append(@, [room |-> r, st |-> "created"])]
                ELSE tasks
    /\ UNCHANGED <<devices, pc, ret, closed, session_id, room, audio_source,
                   is_active, audio_frames_sent, out, play, cleanups,
                   signing_ok, last, nrecv, nplay>>

\* Lines 156-162: the task starts and sends agent_speaking_start.
TaskStart(c, t) ==
    /\ t \in 1..Len(tasks[c])
    /\ tasks[c][t].st = "created"
    /\ play' = [play EXCEPT ![c] =
           send_message(c, "agent_speaking_start", None, 0, tasks[c][t].room, t)]
    /\ tasks' = [tasks EXCEPT ![c][t].st = "streaming"]
    /\ UNCHANGED <<devices, out, pc, ret, closed, session_id, room, audio_source,
                   is_active, audio_frames_sent, rooms, cleanups, signing_ok,
                   last, nrecv, nplay>>

\* ------------------------------------------------------- remote frames
Samples == {-2, 300}    \* the int16 sample values of remote frames

SeqsUpTo(S, n) == UNION {[1..k -> S] : k \in 0..n}

\* The frames a remote track yields: interleaved int16 samples of one or two
\* channels, the same number of samples for every channel.
RemoteFrames ==
    {f \in [num_channels : {1, 2}, samples : SeqsUpTo(Samples, MaxSamples)] :
        Len(f.samples) % f.num_channels = 0}

\* The frame the tracks yield where the contents of a frame play no part.
StereoFrame == [num_channels |-> 2, samples |-> <<300, -2>>]

\* samples[1::2]: every other sample, starting with the second.
right_channel(samples) ==
    [i \in 1..(Len(samples) \div 2) |-> samples[2 * i]]

\* Line 172: samples[::2], every other sample, starting with the first.
left_channel(samples) ==
    [i \in 1..((Len(samples) + 1) \div 2) |-> samples[2 * i - 1]]

\* Lines 168-172: the frame's samples as int16, a stereo frame reduced to
\* one channel.
mono_samples(frame) ==
    IF frame.num_channels = 2 THEN left_channel(frame.samples)
                              ELSE frame.samples

\* Line 176: samples.tobytes(), two bytes for every int16 sample, the low
\* byte first, a negative sample in two's complement.
tobytes(samples) ==
    [i \in 1..(2 * Len(samples)) |->
        LET u == (samples[(i + 1) \div 2] + 65536) % 65536
        IN  IF i % 2 = 1 THEN u % 256 ELSE u \div 256]

\* Lines 175-176: websocket.send(samples.tobytes()) on an open socket.  n is
\* the number of the remote frame in the order the tasks received them, and
\* frame the remote frame itself.
send_bytes(c, t, n, frame) ==
    Append(play[c],
           [type |-> "audio", sid |-> None, frames |-> 0,
            room |-> tasks[c][t].room, task |-> t, ok |-> TRUE,
            seq |-> n, frame |-> frame,
            data |-> tobytes(mono_samples(frame))])

\* The task goes on with the next frame after a failed send.
send_failure_ignored(st) == st

\* Lines 177-179: ConnectionClosed breaks the loop, which ends the task.
after_send_failure(st) == "done"

\* The task ends without telling the device.
finally_forgotten(c, t) == play[c]

\* Lines 184-186: the finally block sends agent_speaking_end.
forward_finally(c, t) ==
    send_message(c, "agent_speaking_end", None, 0, tasks[c][t].room, t)

\* Lines 164-179 and 184-186: one remote frame is sent to the device; when
\* the socket is closed, websocket.send raises ConnectionClosed, the loop
\* breaks and the finally block sends agent_speaking_end.
TaskForward(c, t, frame) ==
    /\ t \in 1..Len(tasks[c])
    /\ tasks[c][t].st = "streaming"
    /\ nplay < MaxPlay
    /\ nplay' = nplay + 1
    /\ IF closed[c]
       THEN /\ tasks' = [tasks EXCEPT ![c][t].st = after_send_failure(@)]
            /\ play' = [play EXCEPT ![c] =
                   IF tasks'[c][t].st = "done" THEN forward_finally(c, t)
                                               ELSE @]
       ELSE /\ play' = [play EXCEPT ![c] = send_bytes(c, t, nplay + 1, frame)]
            /\ UNCHANGED tasks
    /\ UNCHANGED <<devices, out, pc, ret, closed, session_id, room, audio_source,
                   is_active, audio_frames_sent, rooms, cleanups, signing_ok,
                   last, nrecv>>

\* Lines 164, 181-186: the remote stream ends (track unsubscribed, room
\* disconnected, or an error) and the finally block sends agent_speaking_end.
TaskStreamEnd(c, t) ==
    /\ t \in 1..Len(tasks[c])
    /\ tasks[c][t].st = "streaming"
    /\ play' = [play EXCEPT ![c] = forward_finally(c, t)]
    /\ tasks' = [tasks EXCEPT ![c][t].st = "done"]
    /\ UNCHANGED <<devices, out, pc, ret, closed, session_id, room, audio_source,
                   is_active, audio_frames_sent, rooms, cleanups, signing_ok,
                   last, nrecv, nplay>>

\* ------------------------------------------------------------------ Next
\* One step of connection c's handle_device coroutine, or of its socket.
HandlerStep(c) ==
    \/ Accept(c)
    \/ PeerClose(c)
    \/ LoopExit(c)
    \/ \E nbytes \in FrameSizes, captured \in BOOLEAN :
           RecvBinary(c, nbytes, captured)
    \/ RecvDeviceInfo(c)
    \/ \E kind \in {"invalid_json", "no_type", "unknown_type"} :
           RecvIgnored(c, kind)
    \/ RecvNonRecord(c)
    \/ \E sid \in SessionIds \cup {None} : RecvStartSession(c, sid)
    \/ \E ok \in BOOLEAN : ConnectDone(c, ok)
    \/ \E ok \in BOOLEAN : PublishDone(c, ok)
    \/ StartReturn(c)
    \/ RecvEndSession(c)
    \/ DisconnectDone(c)
    \/ EndReturn(c)

\* One step of the rooms and playback tasks of connection c.
PlaybackStep(c) ==
    \/ \E r \in 1..MaxMsgs : TrackSubscribed(c, r, "audio")
    \/ \E t \in 1..MaxTasks : TaskStart(c, t)
    \/ \E t \in 1..MaxTasks : TaskForward(c, t, StereoFrame)
    \/ \E t \in 1..MaxTasks : TaskStreamEnd(c, t)

\* One device: its connection and the sessions on it, without the remote
\* side's tracks.
Device == 1

Next == HandlerStep(Device)

Spec == Init /\ [][Next]_vars

\* One device, the remote tracks of its rooms and the playback tasks they
\* spawn, which run concurrently with the handler.
PlaybackNext ==
    /\ \/ HandlerStep(Device)
       \/ PlaybackStep(Device)
       \/ \E r \in 1..MaxMsgs : TrackSubscribed(Device, r, "video")
    /\ nrecv' <= MaxMsgsConc
    /\ Len(tasks'[Device]) <= MaxTasksConc
    /\ NumTracks(NumConns)' <= MaxTasksConc
    /\ nplay' <= MaxPlayConc

PlaybackSpec == Init /\ [][PlaybackNext]_vars

\* The server with all its device connections, whose coroutines interleave
\* at every await; the playback tasks, which write none of the variables the
\* handlers read or write, are left out.
ServerNext ==
    /\ \E c \in Conns : HandlerStep(c)
    /\ nrecv' <= MaxMsgsConc

ServerSpec == Init /\ [][ServerNext]_vars

\* The state of the server once the first device has started a session: the
\* receive loop waits for the next message, ts are the playback tasks of the
\* session's room and pl is what they sent.
SessionStarted(sid, ts, pl) ==
    /\ devices = {Device}
    /\ pc = [c \in Conns |-> IF c = Device THEN "recv" ELSE "new"]
    /\ ret = [c \in Conns |-> "none"]
    /\ closed = [c \in Conns |-> FALSE]
    /\ session_id = [c \in Conns |-> IF c = Device THEN sid ELSE None]
    /\ room = [c \in Conns |-> IF c = Device THEN 1 ELSE None]
    /\ audio_source = [c \in Conns |-> IF c = Device THEN 1 ELSE None]
    /\ is_active = [c \in Conns |-> c = Device]
    /\ audio_frames_sent = [c \in Conns |-> 0]
    /\ rooms = [c \in Conns |->
           IF c = Device
           THEN <<[NewRoom(sid) EXCEPT !.st = "connected", !.handler = TRUE,
                                       !.subs = Len(ts)]>>
           ELSE <<>>]
    /\ tasks = [c \in Conns |-> IF c = Device THEN ts ELSE <<>>]
    /\ out = [c \in Conns |->
           IF c = Device THEN <<Msg("session_started", sid, 0, 1, 0, TRUE)>>
                         ELSE <<>>]
    /\ play = [c \in Conns |-> IF c = Device THEN pl ELSE <<>>]
    /\ cleanups = [c \in Conns |-> 0]
    /\ signing_ok = TRUE
    /\ last = [c \in Conns |-> IF c = Device THEN "start_session" ELSE "none"]
    /\ nrecv = 1
    /\ nplay = 0

\* One session from the moment it is started, on a socket that stays open:
\* the device's audio frames go into the room while the room's remote tracks
\* are forwarded to the device by as many playback tasks.
StreamInit == \E sid \in SessionIds : SessionStarted(sid, <<>>, <<>>)

StreamNext ==
    /\ \/ \E nbytes \in FrameSizes, captured \in BOOLEAN :
              RecvBinary(Device, nbytes, captured)
       \/ PlaybackStep(Device)
    /\ nrecv' <= 1 + MaxMsgsConc   \* the start_session and the frames after it

StreamSpec == StreamInit /\ [][StreamNext]_vars

\* The playback tasks of one started session, whose socket may close under
\* them while the receive loop waits for its next message.  The event loop runs
\* every task it created, and no remote stream lasts for ever: the track is
\* unsubscribed or its room goes away.
TaskNext ==
    \/ PeerClose(Device)
    \/ PlaybackStep(Device)

TaskSpec ==
    /\ StreamInit
    /\ [][TaskNext]_vars
    /\ WF_vars(\E t \in 1..Len(tasks[Device]) : TaskStart(Device, t))
    /\ WF_vars(\E t \in 1..Len(tasks[Device]) : TaskStreamEnd(Device, t))

\* One playback task of a started session, forwarding remote frames of every
\* content.
DownmixInit ==
    \E sid \in SessionIds :
        SessionStarted(sid, <<[room |-> 1, st |-> "streaming"]>>,
                       <<Msg("agent_speaking_start", None, 0, 1, 1, TRUE)>>)

DownmixNext ==
    /\ \/ \E frame \in RemoteFrames : TaskForward(Device, 1, frame)
       \/ TaskStreamEnd(Device, 1)
       \/ PeerClose(Device)
    /\ nplay' <= MaxPlayConc

DownmixSpec == DownmixInit /\ [][DownmixNext]_vars

\* ======================================================== lifecycle state
\* The session is Idle: not active, no session_id, no room handle, and no
\* end_session in progress.
Idle(c) ==
    /\ ~is_active[c]
    /\ session_id[c] = None
    /\ room[c] = None
    /\ pc[c] \notin {"disconnect", "notify_ended"}

\* Positions in out[c] of the messages of one type.
Sent(c, type) == {i \in 1..Len(out[c]) : out[c][i].type = type}

\* The room connections of c that are connected and not yet disconnected.
InFlight(c) == {r \in 1..Len(rooms[c]) : rooms[c][r].st = "connected"}

\* ================================================================ claims

\* C1: once a connection's cleanup has completed, every session_started it
\* sent is followed by exactly one session_ended for that session (the same
\* room connection), and as many session_ended as session_started were sent.
C1_StartedThenEndedOnce ==
    \A c \in Conns :
        pc[c] = "done" =>
            /\ \A i \in Sent(c, "session_started") :
                   Cardinality({j \in Sent(c, "session_ended") :
                                    j > i /\ out[c][j].room = out[c][i].room}) = 1
            /\ Cardinality(Sent(c, "session_ended"))
                   = Cardinality(Sent(c, "session_started"))

\* C2: at the moment a session_started has been sent (start_session is at
\* its last await), the device has exactly one in-flight room connection.
C2_OneRoomWhenStarted ==
    \A c \in Conns :
        pc[c] = "notify_started" => Cardinality(InFlight(c)) = 1

\* C3: a start_session message received while the session is not Idle
\* changes no session field, opens no room, connects nothing and sends
\* nothing; the receive loop goes on.
C3_StartRejectedWhenNotIdle ==
    [][\A c \in Conns, sid \in SessionIds \cup {None} :
           (~Idle(c) /\ RecvStartSession(c, sid)) =>
               /\ UNCHANGED <<sessvars, rooms, out>>
               /\ pc'[c] = "recv"]_vars

\* C4: an end trigger (an end_session message, or the cleanup of the
\* finally block) that finds the session Idle sends nothing, disconnects
\* nothing and changes no session field; so no room is disconnected twice,
\* no session gets two session_ended, and a session the end transition has
\* ended has exactly one of each.
Ended(c, r) == rooms[c][r].disc > 0 /\ room[c] # r

EndedMsgs(c, r) == {j \in Sent(c, "session_ended") : out[c][j].room = r}

Active(c) ==
    /\ is_active[c]
    /\ room[c] # None
    /\ \E i \in Sent(c, "session_started") : out[c][i].room = room[c]

C5_FramesDroppedUnlessActive ==
    [][\A c \in Conns :
           /\ (~Active(c) /\ \E nbytes \in FrameSizes, captured \in BOOLEAN :
                                 RecvBinary(c, nbytes, captured)) =>
                  /\ UNCHANGED <<sessvars, rooms, out, devices, closed>>
                  /\ pc'[c] = "recv"
           /\ \A r \in 1..Len(rooms[c]) :
                  rooms'[c][r].cap # rooms[c][r].cap =>
                      Active(c) /\ r = room[c]]_vars

\* A frame arrived after a session had ended, and no room captured it.
C5_FrameAfterEndWitness ==
    \E c \in Conns :
        /\ last[c] = "binary"
        /\ pc[c] = "recv"
        /\ Idle(c)
        /\ Sent(c, "session_ended") # {}
        /\ \A r \in 1..Len(rooms[c]) : rooms[c][r].cap = 0

\* C6: the frames_sent of every session_ended is the number of frames
\* captured into that session's room.
C6_FramesSentIsCaptured ==
    \A c \in Conns : \A j \in Sent(c, "session_ended") :
        out[c][j].room # None =>
            out[c][j].frames = rooms[c][out[c][j].room].cap

\* A session that captured a frame has ended.
C6_CountedFrameWitness ==
    \E c \in Conns : \E j \in Sent(c, "session_ended") :
        out[c][j].frames = 1 /\ rooms[c][out[c][j].room].cap = 1

\* C7: the finally block runs once per connection; it invokes end_session
\* iff the session is not Idle; a handler that has returned has run it,
\* left its session Idle and its registry entry deleted; and the registry
\* holds exactly the connections whose handler is between accept and the
\* end of cleanup.
C7_CleanupOnceRegistryExact ==
    /\ [](/\ \A c \in Conns :
               /\ cleanups[c] <= 1
               /\ pc[c] = "done" =>
                      cleanups[c] = 1 /\ Idle(c) /\ c \notin devices
          /\ devices = {c \in Conns : pc[c] \notin {"new", "done"}})
    /\ [][\A c \in Conns :
              cleanups'[c] # cleanups[c] =>
                  /\ cleanups[c] = 0
                  /\ pc'[c] = "disconnect" <=> ~Idle(c)
                  /\ pc'[c] = "done" <=> Idle(c)]_vars

\* An unhandled fault ended the loop of a connection with an active session
\* while another connection stays registered.
C7_FaultCleanupWitness ==
    /\ pc[1] = "done"
    /\ last[1] = "non_record"
    /\ Sent(1, "session_ended") # {}
    /\ pc[2] = "recv"
    /\ devices = {2}

\* C8: when a handler has returned, every room connection its session
\* opened has had disconnect called on it.
C8_NoRoomLeaked ==
    \A c \in Conns :
        pc[c] = "done" =>
            \A r \in 1..Len(rooms[c]) :
                rooms[c][r].st \in {"connected", "disconnected"} =>
                    rooms[c][r].disc >= 1

\* C9: once end_session has completed (the session is Idle again) or the
\* handler has returned, no playback task of the connection is still running.
C9_NoTaskOutlivesSession ==
    \A c \in Conns :
        (Idle(c) /\ pc[c] \in {"recv", "done"}) =>
            \A t \in 1..Len(tasks[c]) : tasks[c][t].st = "done"

\* C10: a start attempt whose room.connect or publish_track failed sends no
\* session_started and does not leave the session active: the session is
\* being ended, and is Idle once the handler has returned.
FailedStart(c, r) ==
    \/ rooms[c][r].st = "failed"
    \/ /\ rooms[c][r].st \in {"connected", "disconnected"}
       /\ ~rooms[c][r].handler
       /\ ~(pc[c] = "publish" /\ room[c] = r)

C10_FailedStartRevertsToIdle ==
    \A c \in Conns : \A r \in 1..Len(rooms[c]) :
        FailedStart(c, r) =>
            /\ ~is_active[c]
            /\ pc[c] \in {"disconnect", "notify_ended", "done"}
            /\ room[c] = r => pc[c] = "disconnect"
            /\ pc[c] = "done" => Idle(c)
            /\ \A i \in Sent(c, "session_started") : out[c][i].room # r

\* A start attempt failed at publish_track and the handler has returned.
C10_FailedStartWitness ==
    \E c \in Conns : \E r \in 1..Len(rooms[c]) :
        /\ FailedStart(c, r)
        /\ rooms[c][r].st = "disconnected"
        /\ pc[c] = "done"
        /\ Idle(c)

\* A step of connection c in which a start attempt fails: the grant cannot
\* be signed, room.connect raises, or publish_track raises.
StartFails(c) ==
    \/ ~signing_ok /\ \E sid \in SessionIds \cup {None} : RecvStartSession(c, sid)
    \/ ConnectDone(c, FALSE)
    \/ PublishDone(c, FALSE)

\* C11: a failure while starting a session is fatal to that start attempt
\* only: the receive loop keeps running (no cleanup is entered) and the
\* connection stays registered, so that a later start_session can be served.
C11_StartFailureKeepsLoop ==
    [][\A c \in Conns :
           StartFails(c) =>
               /\ pc'[c] = "recv"
               /\ c \in devices'
               /\ cleanups'[c] = cleanups[c]]_vars

\* C12: a text frame that is no valid JSON, is JSON but no record (a list,
\* a number, a string), has no type or has an unknown type is ignored: the
\* receive loop goes on, nothing is sent and the session is unchanged.
C12_ProtocolErrorIgnored ==
    [][\A c \in Conns :
           (\/ RecvNonRecord(c)
            \/ \E kind \in {"invalid_json", "no_type", "unknown_type"} :
                   RecvIgnored(c, kind)) =>
               /\ pc'[c] = "recv"
               /\ cleanups'[c] = cleanups[c]
               /\ UNCHANGED <<sessvars, rooms, out, devices>>]_vars

\* What playback task t of connection c handed to the socket, in order.
TaskMsgs(c, t) ==
    LET OfTask(m) == m.task = t
    IN  SelectSeq(play[c], OfTask)

\* Where playback task t of connection c is, "none" before it is created.
TaskState(c, t) == IF t \in 1..Len(tasks[c]) THEN tasks[c][t].st ELSE "none"

\* C13: every playback task sends agent_speaking_start exactly once, before
\* any of its binary frames, and, however its stream ends (the track or the
\* room goes away, forwarding fails, or a send to the device fails), sends
\* agent_speaking_end exactly once, after its last frame: a task that has not
\* started has sent nothing, a streaming task a start and then frames only,
\* and a finished task a start, its frames and then the end; and every task
\* that has started finishes, so that its start is followed by its end.
SpeakingStartAndEndOnce ==
    \A c \in Conns : \A t \in 1..Len(tasks[c]) :
        LET p == TaskMsgs(c, t)
            n == Len(p)
        IN  /\ tasks[c][t].st = "created" => n = 0
            /\ tasks[c][t].st = "streaming" =>
                   /\ n >= 1
                   /\ p[1].type = "agent_speaking_start"
                   /\ \A i \in 2..n : p[i].type = "audio"
            /\ tasks[c][t].st = "done" =>
                   /\ n >= 2
                   /\ p[1].type = "agent_speaking_start"
                   /\ p[n].type = "agent_speaking_end"
                   /\ \A i \in 2..(n - 1) : p[i].type = "audio"

C13_SpeakingStartThenEnd ==
    /\ []SpeakingStartAndEndOnce
    /\ \A t \in 1..MaxTasks :
           (TaskState(Device, t) = "streaming") ~> (TaskState(Device, t) = "done")

\* A task forwarded one frame, then the socket closed and the send of its
\* second frame failed, which ended the task.
C13_SendFailureWitness ==
    \E c \in Conns : \E t \in 1..Len(tasks[c]) :
        /\ tasks[c][t].st = "done"
        /\ closed[c]
        /\ nplay = 2
        /\ Len(play[c]) = 3
        /\ Len(TaskMsgs(c, t)) = 3
        /\ TaskMsgs(c, t)[2].type = "audio"
        /\ ~TaskMsgs(c, t)[3].ok

\* The int16 samples a device reads from the bytes of a binary message: two
\* bytes a sample, the low byte first, two's complement.
DeviceSamples(data) ==
    [i \in 1..(Len(data) \div 2) |->
        LET u == data[2 * i - 1] + 256 * data[2 * i]
        IN  IF u >= 32768 THEN u - 65536 ELSE u]

\* C14: the bytes of every binary playback message are the samples of its
\* remote frame, in order: of a two-channel frame L0 R0 L1 R1 ... the left
\* channel L0 L1 ... (the right channel left out, nothing averaged), of a
\* one-channel frame every sample unchanged.
C14_LeftChannelDownmix ==
    \A c \in Conns : \A i \in 1..Len(play[c]) :
        play[c][i].type = "audio" =>
            LET smp == play[c][i].frame.samples
                ch == play[c][i].frame.num_channels
                got == DeviceSamples(play[c][i].data)
            IN  /\ Len(play[c][i].data) = 2 * (Len(smp) \div ch)
                /\ Len(got) = Len(smp) \div ch
                /\ \A k \in 1..Len(got) : got[k] = smp[ch * (k - 1) + 1]

\* The stereo frame L0 R0 L1 R1 = 300 -2 -2 300 was forwarded as the bytes
\* of 300 -2.
C14_StereoFrameWitness ==
    \E i \in 1..Len(play[Device]) :
        /\ play[Device][i].type = "audio"
        /\ play[Device][i].frame =
               [num_channels |-> 2, samples |-> <<300, -2, -2, 300>>]
        /\ play[Device][i].data = <<44, 1, 254, 255>>

\* C15: session_started is sent only for a room the attempt has connected
\* and published its track to, and carries the session_id of the
\* start_session that opened that room; a binary frame that arrives after it,
\* while the session is Active, and that decodes and captures, is taken in;
\* device_info is answered with ready and changes no session state.
C15_StartedAfterConnectAndPublish ==
    /\ [](\A c \in Conns : \A i \in Sent(c, "session_started") :
              /\ rooms[c][out[c][i].room].st \in {"connected", "disconnected"}
              /\ rooms[c][out[c][i].room].handler
              /\ out[c][i].sid = rooms[c][out[c][i].room].sid)
    /\ [][\A c \in Conns :
              /\ (/\ Len(out'[c]) > Len(out[c])
                  /\ out'[c][Len(out'[c])].type = "session_started") =>
                     pc[c] = "publish" /\ rooms[c][room[c]].st = "connected"
              /\ (Active(c) /\ \E nbytes \in {n \in FrameSizes : decodes(n)} :
                                   RecvBinary(c, nbytes, TRUE)) =>
                     /\ rooms'[c][room[c]].cap = rooms[c][room[c]].cap + 1
                     /\ audio_frames_sent'[c] = audio_frames_sent[c] + 1
              /\ RecvDeviceInfo(c) =>
                     /\ Len(out'[c]) = Len(out[c]) + 1
                     /\ out'[c][Len(out'[c])].type = "ready"
                     /\ pc'[c] = "recv"
                     /\ UNCHANGED <<sessvars, rooms, devices>>]_vars

\* A device asked for the server's readiness, started session 1 and had a
\* frame captured after session_started.
C15_FrameAfterStartedWitness ==
    \E c \in Conns :
        /\ Active(c)
        /\ Sent(c, "ready") # {}
        /\ \E i \in Sent(c, "session_started") : out[c][i].sid = 1
        /\ rooms[c][room[c]].cap = 1
        /\ last[c] = "binary"

\* The session is Starting, Active or Ending: it is active, or end_session
\* is between its first statement and its return.
InSession(c) == is_active[c] \/ pc[c] \in {"disconnect", "notify_ended"}

\* C16: wherever the coroutines are suspended, session_id is set exactly
\* while the session is Starting, Active or Ending, and so is the room
\* handle; hence session_id is set exactly when the room handle is.
C16_IdAndRoomIffInSession ==
    \A c \in Conns :
        /\ session_id[c] # None <=> InSession(c)
        /\ room[c] # None <=> InSession(c)

\* C17: a start_session that finds the session Idle creates a room
\* connection that is none of the connection's earlier ones and is fresh
\* (not connected, nothing captured), leaves the earlier rooms alone, and
\* starts with the counter at 0, the session_id of the message and no audio
\* source; the audio source the session then gets is that of the new room.
C17_FreshSessionFromIdle ==
    [][\A c \in Conns :
           /\ \A sid \in SessionIds \cup {None} :
                  (Idle(c) /\ signing_ok /\ RecvStartSession(c, sid)) =>
                      /\ room'[c] \notin 1..Len(rooms[c])
                      /\ room'[c] \in 1..Len(rooms'[c])
                      /\ rooms'[c][room'[c]].st = "connecting"
                      /\ rooms'[c][room'[c]].cap = 0
                      /\ rooms'[c][room'[c]].log = <<>>
                      /\ rooms'[c][room'[c]].disc = 0
                      /\ \A r \in 1..Len(rooms[c]) : rooms'[c][r] = rooms[c][r]
                      /\ audio_frames_sent'[c] = 0
                      /\ session_id'[c] = sid
                      /\ audio_source'[c] = None
           /\ (pc[c] = "connect" /\ pc'[c] = "publish") =>
                  /\ audio_source'[c] = room[c]
                  /\ room'[c] = room[c]
                  /\ rooms'[c][room[c]].cap = 0]_vars

\* A session that had a frame captured has ended, and a second session on
\* the same connection is starting with a second room and the counter at 0.
C17_SecondSessionWitness ==
    \E c \in Conns :
        /\ pc[c] = "connect"
        /\ room[c] = 2
        /\ rooms[c][1].st = "disconnected"
        /\ rooms[c][1].cap = 1
        /\ audio_frames_sent[c] = 0
        /\ audio_source[c] = None

\* C18: a binary frame of an Active session that fails to decode (an odd
\* number of bytes is no int16 buffer) or to be captured is skipped and
\* nothing else: the counter, session_id, the room
\* handle and the rooms are unchanged, nothing is sent, the session is still
\* Active and the receive loop takes the next message.
C18_BadFrameSkipped ==
    [][\A c \in Conns : \A nbytes \in FrameSizes, captured \in BOOLEAN :
           (/\ Active(c)
            /\ nbytes % 2 = 1 \/ ~captured
            /\ RecvBinary(c, nbytes, captured)) =>
               /\ UNCHANGED <<sessvars, rooms, out, devices>>
               /\ cleanups'[c] = cleanups[c]
               /\ pc'[c] = "recv"
               /\ Active(c)']_vars

\* The first message after start_session was a binary frame, taken while
\* the session was Active, and it was not counted.
C18_SkippedFrameWitness ==
    \E c \in Conns :
        /\ Active(c)
        /\ pc[c] = "recv"
        /\ last[c] = "binary"
        /\ nrecv = 2
        /\ audio_frames_sent[c] = 0
        /\ rooms[c][room[c]].cap = 0

\* C19: when the send of a playback frame fails, the task that sent it ends
\* (its agent_speaking_end is its last word) and nothing else happens: the
\* session's fields, the rooms (no disconnect is called), the receive loop,
\* the registry and every other playback task are as they were.
C19_SendFailureEndsOnlyTheTask ==
    [][\A c \in Conns : \A t \in 1..Len(tasks[c]) :
           (closed[c] /\ TaskForward(c, t, StereoFrame)) =>
               /\ tasks'[c][t].st = "done"
               /\ play'[c][Len(play'[c])].type = "agent_speaking_end"
               /\ play'[c][Len(play'[c])].task = t
               /\ \A u \in 1..Len(tasks[c]) : u # t => tasks'[c][u] = tasks[c][u]
               /\ UNCHANGED <<sessvars, rooms, pc, ret, devices, out, cleanups>>]_vars

\* Of two playback tasks of an active session one was ended by a failed
\* send, the other is still streaming, and the receive loop has not yet
\* seen the socket close.
C19_OtherTaskStreamingWitness ==
    \E c \in Conns : \E t, u \in 1..Len(tasks[c]) :
        /\ Len(tasks[c]) = 2
        /\ closed[c]
        /\ nplay = 1
        /\ \A i \in 1..Len(play[c]) : play[c][i].type # "audio"
        /\ tasks[c][t].st = "done"
        /\ tasks[c][u].st = "streaming"
        /\ is_active[c]
        /\ pc[c] = "recv"

\* The numbers of the remote frames among the binary messages handed to the
\* socket of connection c, in the order they were handed over.
Forwarded(c) ==
    LET IsAudio(m) == m.type = "audio"
        audio == SelectSeq(play[c], IsAudio)
    IN  [i \in 1..Len(audio) |-> audio[i].seq]

\* A sequence of frame numbers in the order the frames arrived, none twice.
InArrivalOrder(s) == \A i, j \in 1..Len(s) : i < j => s[i] < s[j]

\* C20: in each direction the order of the frames is kept and no frame is
\* passed on twice or merged: what a room has captured are frames the device
\* sent, in the order they arrived, and what the playback tasks have sent to
\* the device are remote frames in the order they were received, whichever
\* of the session's tracks they came from.
C20_FrameOrderKept ==
    \A c \in Conns :
        /\ \A r \in 1..Len(rooms[c]) :
               /\ InArrivalOrder(rooms[c][r].log)
               /\ Len(rooms[c][r].log) = rooms[c][r].cap
               /\ \A i \in 1..Len(rooms[c][r].log) :
                      rooms[c][r].log[i] \in 1..nrecv
        /\ InArrivalOrder(Forwarded(c))
        /\ \A i \in 1..Len(Forwarded(c)) : Forwarded(c)[i] \in 1..nplay

\* The room captured the two frames that followed start_session, and two
\* playback tasks forwarded one remote frame each.
C20_TwoTracksWitness ==
    \E c \in Conns :
        /\ room[c] # None
        /\ rooms[c][room[c]].log = <<2, 3>>
        /\ Forwarded(c) = <<1, 2>>
        /\ \E i, j \in 1..Len(play[c]) :
               /\ play[c][i].type = "audio"
               /\ play[c][j].type = "audio"
               /\ play[c][i].task # play[c][j].task

\* The messages of one type and session_id among the first n of out[c].
SentBefore(c, type, sid, n) ==
    {i \in Sent(c, type) : i < n /\ out[c][i].sid = sid}

\* C21: every session_ended follows a session_started of its session_id on
\* the same connection that no earlier session_ended has answered, and it
\* belongs to a room for which session_started was sent: none is sent for a
\* start attempt whose room connect or publish failed.
C21_EndedAnswersStarted ==
    \A c \in Conns : \A j \in Sent(c, "session_ended") :
        /\ Cardinality(SentBefore(c, "session_started", out[c][j].sid, j))
               > Cardinality(SentBefore(c, "session_ended", out[c][j].sid, j))
        /\ \E i \in Sent(c, "session_started") :
               i < j /\ out[c][i].room = out[c][j].room

\* The playback tasks connection c created for room r.
TasksOf(c, r) == {t \in 1..Len(tasks[c]) : tasks[c][t].room = r}

\* C22: a room has exactly one playback task for every remote audio track
\* it reported as subscribed while it was connected, and none for any other
\* track: no report is lost, not even one that comes while start_session is
\* still publishing the local track.
C22_OneTaskPerAudioTrack ==
    \A c \in Conns : \A r \in 1..Len(rooms[c]) :
        Cardinality(TasksOf(c, r)) = rooms[c][r].subs
====
